---------------------------- MODULE Spec2Model ----------------------------
(***************************************************************************)
(* A model of capnpy's write-side builders (builder.py), of the struct     *)
(* read view and its compaction (struct_.py), of the list view (list.py)   *)
(* and of the SegmentBuilder exercised by testing/segment/test_builder.py. *)
(*                                                                         *)
(* Buffers are sequences of bytes (0..255).  A pointer value, a 64-bit     *)
(* integer in the program, is kept as the 8 little-endian bytes of that    *)
(* integer, so that the field arithmetic of the wire format is modelled    *)
(* and not assumed.                                                        *)
(***************************************************************************)
EXTENDS Integers, Sequences, FiniteSets, TLC

VARIABLES
    bld,      \* the builder under construction (a Builder or a ListBuilder)
    prev,     \* the builder as it was before the last call
    call,     \* the last call made on the builder, with what it returned
    slots,    \* per pointer slot of the body: the chunk the last allocation there began with
    st,       \* a struct view (buffer, offset, sizes)
    cx,       \* compact() of st, once taken
    ccx,      \* compact() of cx, once taken
    rd,       \* the last field read made on st, with what it returned
    seg,      \* a SegmentBuilder
    shadow,   \* the bytes a SegmentBuilder is expected to hold up to its end
    segcall   \* the calls made on the SegmentBuilder, latest last

vars == <<bld, prev, call, slots, st, cx, ccx, rd, seg, shadow, segcall>>

Idle == [op |-> "idle"]

----------------------------------------------------------------------------
(* Bounds of the model *)

MaxAllocs == 2          \* calls made on one builder
MaxItems == 2           \* items of a list handed to alloc_list
MaxSegCalls == 3        \* calls made on one SegmentBuilder
MaxSegEnd == 4200       \* bytes allocated in one SegmentBuilder
MaxDataWords == 1       \* data words of an enumerated struct view
MaxPtrs == 2            \* pointer words of an enumerated struct view
MaxGarbage0 == 1        \* garbage words before an enumerated struct's body
MaxExtraWords == 4      \* words after an enumerated struct's body
MaxDepth == 4           \* pointer hops followed when computing an extent
MaxReadData == 1        \* data words of a struct view that is read
MaxReadPtrs == 1        \* pointer words of a struct view that is read

----------------------------------------------------------------------------
(* Integers and byte strings *)

Max2(a, b) == IF a >= b THEN a ELSE b

Min2(a, b) == IF a <= b THEN a ELSE b

SetMax(S) == CHOOSE m \in S : \A n \in S : n <= m

SetMin(S) == CHOOSE m \in S : \A n \in S : m <= n

Zeros(n) == [i \in 1..n |-> 0]

\* the Python slice s[a:b] of a string, for 0 <= a (b is clamped to the length)
Slice(s, a, b) == SubSeq(s, a + 1, Min2(b, Len(s)))

RECURSIVE Concat(_)
Concat(ss) == IF ss = <<>> THEN <<>> ELSE Head(ss) \o Concat(Tail(ss))

RECURSIVE SumLen(_)
SumLen(ss) == IF ss = <<>> THEN 0 ELSE Len(Head(ss)) + SumLen(Tail(ss))

\* a little-endian unsigned integer of n bytes
RECURSIVE PackLE(_, _)
PackLE(v, n) == IF n = 0 THEN <<>> ELSE <<v % 256>> \o PackLE(v \div 256, n - 1)

RECURSIVE UnpackLE(_)
UnpackLE(bs) == IF bs = <<>> THEN 0 ELSE Head(bs) + 256 * UnpackLE(Tail(bs))

\* the 8 bytes at a byte offset of a buffer; <<>> when they are not all there
ReadWord(buf, off) ==
    IF off >= 0 /\ off + 8 <= Len(buf) THEN SubSeq(buf, off + 1, off + 8) ELSE <<>>

\* pack_int64_into: the buffer with the 8 bytes at off replaced
WriteWord(buf, off, w) == SubSeq(buf, 1, off) \o w \o SubSeq(buf, off + 9, Len(buf))

----------------------------------------------------------------------------
(* Wire pointers: kind in bits 0..1, signed offset in bits 2..31, and the  *)
(* kind's payload in bits 32..63 (struct: data and pointer section sizes   *)
(* of 16 bits each; list: size tag in 3 bits, then the count).             *)

STRUCT == 0
LIST == 1
FAR == 2

LIST_SIZE_VOID == 0
LIST_SIZE_BIT == 1
LIST_SIZE_8 == 2
LIST_SIZE_16 == 3
LIST_SIZE_32 == 4
LIST_SIZE_64 == 5
LIST_SIZE_PTR == 6
LIST_SIZE_COMPOSITE == 7

\* the length in bytes of an item of a list with a scalar or pointer size tag
LIST_SIZE_LENGTH(size_tag) ==
    CASE size_tag = LIST_SIZE_VOID -> 0
      [] size_tag = LIST_SIZE_8 -> 1
      [] size_tag = LIST_SIZE_16 -> 2
      [] size_tag = LIST_SIZE_32 -> 4
      [] OTHER -> 8

NullPtr == Zeros(8)

Pow30 == 1073741824

\* the low half of a pointer: kind + (offset mod 2^30) * 4, as 4 bytes
PtrLow(kind, offset) ==
    LET o == offset % Pow30
    IN  <<kind + 4 * (o % 64), (o \div 64) % 256,
          (o \div 16384) % 256, (o \div 4194304) % 256>>

new_generic(kind, offset, extra) == PtrLow(kind, offset) \o extra

new_struct(offset, data_size, ptrs_size) ==
    new_generic(STRUCT, offset, PackLE(data_size, 2) \o PackLE(ptrs_size, 2))

new_list(offset, size_tag, item_count) ==
    new_generic(LIST, offset, PackLE(size_tag + 8 * item_count, 4))

ptr_kind(p) == p[1] % 4

ptr_offset(p) ==
    LET o == (p[1] \div 4) + 64 * p[2] + 16384 * p[3] + 4194304 * p[4]
    IN  IF o >= Pow30 \div 2 THEN o - Pow30 ELSE o

ptr_extra(p) == SubSeq(p, 5, 8)

ptr_deref(p, offset) == offset + 8 + ptr_offset(p) * 8

struct_data_size(p) == UnpackLE(SubSeq(p, 5, 6))

struct_ptrs_size(p) == UnpackLE(SubSeq(p, 7, 8))

list_size_tag(p) == p[5] % 8

list_item_count(p) == (p[5] \div 8) + 32 * UnpackLE(SubSeq(p, 6, 8))

----------------------------------------------------------------------------
(* Struct: the read view *)

\* Struct._init_from_buffer
struct_from_buffer(buf, offset, data_size, ptrs_size) ==
    [buf |-> buf, data_offset |-> offset, ptrs_offset |-> offset + data_size * 8,
     data_size |-> data_size, ptrs_size |-> ptrs_size]

\* the assertions of Struct._init_from_buffer
struct_fits(v) ==
    /\ v.data_offset + v.data_size * 8 <= Len(v.buf)
    /\ v.ptrs_offset + v.ptrs_size * 8 <= Len(v.buf)

\* read_fast_ptr with a fault: the bound tested with > instead of >=
read_fast_ptr_strict(v, offset) ==
    IF offset > v.ptrs_size * 8
    THEN [p |-> NullPtr, accessed |-> FALSE]
    ELSE [p |-> ReadWord(v.buf, v.ptrs_offset + offset), accessed |-> TRUE]

\* Struct._read_fast_ptr: [p, accessed], accessed telling whether the buffer was read
read_fast_ptr(v, offset) ==
    IF offset >= v.ptrs_size * 8
    THEN [p |-> NullPtr, accessed |-> FALSE]
    ELSE [p |-> ReadWord(v.buf, v.ptrs_offset + offset), accessed |-> TRUE]

get_body_start(v) == v.data_offset

get_body_end(v) == v.data_offset + (v.data_size + v.ptrs_size) * 8

\* the pointer slots of a struct that hold a non-null pointer
NonNullSlots(v) ==
    {i \in 0..(v.ptrs_size - 1) : read_fast_ptr(v, i * 8).p # NullPtr}

\* Struct._get_extra_start: the target of the first non-null pointer
get_extra_start(v) ==
    IF v.ptrs_size = 0 \/ NonNullSlots(v) = {}
    THEN get_body_end(v)
    ELSE LET i == SetMin(NonNullSlots(v))
         IN  v.ptrs_offset + ptr_deref(read_fast_ptr(v, i * 8).p, i * 8)


----------------------------------------------------------------------------
(* Extents (capnpy.visit.end_of): the end of what a pointer reaches is the *)
(* maximum end position reachable from it.  Err is the outcome of a walk   *)
(* that fails: a read outside the buffer, a far pointer, a bit list, an    *)
(* unknown kind, or a chain of pointers that does not end.                 *)

Err == -1

RoundUpToWord(n) == ((n + 7) \div 8) * 8

MaxOrErr(S) == IF Err \in S THEN Err ELSE SetMax(S)

RECURSIVE end_of(_, _, _, _)
RECURSIVE end_of_ptrs(_, _, _, _, _)

\* the maximum end reached from the n pointer words at byte offset start, at least current_end
end_of_ptrs(buf, start, n, current_end, fuel) ==
    MaxOrErr({current_end} \cup
        { LET p2 == ReadWord(buf, start + i * 8)
          IN  IF p2 = <<>> THEN Err
              ELSE IF p2 = NullPtr THEN current_end
              ELSE end_of(buf, p2, start + i * 8, fuel - 1) : i \in 0..(n - 1) })

end_of(buf, p, offset, fuel) ==
    LET target == ptr_deref(p, offset)
    IN  IF fuel = 0 \/ target < 0 THEN Err
        ELSE IF ptr_kind(p) = STRUCT
        THEN LET ds == struct_data_size(p)
                 ps == struct_ptrs_size(p)
             IN  end_of_ptrs(buf, target + ds * 8, ps, target + (ds + ps) * 8, fuel)
        ELSE IF ptr_kind(p) = LIST
        THEN LET tag == list_size_tag(p)
                 count == list_item_count(p)
             IN  IF tag = LIST_SIZE_BIT THEN Err
                 ELSE IF tag = LIST_SIZE_PTR
                 THEN end_of_ptrs(buf, target, count, target + count * 8, fuel)
                 ELSE IF tag = LIST_SIZE_COMPOSITE
                 THEN LET t == ReadWord(buf, target)
                      IN  IF t = <<>> THEN Err
                          ELSE LET n == ptr_offset(t)
                                   ds == struct_data_size(t)
                                   ps == struct_ptrs_size(t)
                                   body_end == target + 8 + n * (ds + ps) * 8
                               IN  MaxOrErr({body_end} \cup
                                     { end_of_ptrs(buf,
                                          target + 8 + i * (ds + ps) * 8 + ds * 8,
                                          ps, body_end, fuel) : i \in 0..(n - 1) })
                 ELSE target + RoundUpToWord(count * LIST_SIZE_LENGTH(tag))
        ELSE Err

\* Struct._get_end
get_end(v) ==
    end_of(v.buf, new_struct(0, v.data_size, v.ptrs_size), v.data_offset - 8, MaxDepth)

----------------------------------------------------------------------------
(* Compaction *)

\* the pointer words of the body, read and moved by additional_offset words
RECURSIVE split_ptrs(_, _, _)
split_ptrs(v, j, additional_offset) ==
    IF j >= v.ptrs_size THEN <<>>
    ELSE LET p == read_fast_ptr(v, j * 8).p
         IN  (IF p # NullPtr
              THEN new_generic(ptr_kind(p), ptr_offset(p) + additional_offset, ptr_extra(p))
              ELSE p)
             \o split_ptrs(v, j + 1, additional_offset)

\* Struct._split: [body, extra, err]; err tells that an assertion or a read failed
split(v, extra_offset) ==
    LET body_start == get_body_start(v)
        body_end == get_body_end(v)
    IN  IF v.ptrs_size = 0
        THEN [body |-> Slice(v.buf, body_start, body_end), extra |-> <<>>, err |-> FALSE]
        ELSE
        LET extra_start == get_extra_start(v)
            extra_end == get_end(v)
            data_buf == Slice(v.buf, body_start, body_start + v.data_size * 8)
            old_extra_offset == (extra_start - body_end) \div 8
            additional_offset == extra_offset - old_extra_offset
            far == \E j \in 0..(v.ptrs_size - 1) : ptr_kind(read_fast_ptr(v, j * 8).p) = FAR
        IN  IF far \/ extra_end = Err \/ extra_start < 0
            THEN [body |-> <<>>, extra |-> <<>>, err |-> TRUE]
            ELSE [body |-> data_buf \o split_ptrs(v, 0, additional_offset),
                  extra |-> Slice(v.buf, extra_start, extra_end),
                  err |-> FALSE]

\* Struct.compact: the compact view, or Failed when compaction raises
Failed == [op |-> "failed"]

compact(v) ==
    LET s == split(v, 0)
        buf == s.body \o s.extra
        c == struct_from_buffer(buf, 0, v.data_size, v.ptrs_size)
    IN  IF s.err \/ ~struct_fits(c) THEN Failed ELSE c

----------------------------------------------------------------------------
(* Struct views to compact: a body of ds data words and ps pointer words   *)
(* after g0 words of garbage, followed by a layout of words, each a        *)
(* garbage word ("G"), a struct of one data word ("S"), the text "ab"      *)
(* ("T") or a struct of one pointer ("N") pointing to the last "S" or "T"  *)
(* after it.  Each pointer of the body is null or points to any word of    *)
(* the layout that is not garbage: the targets are in any order.           *)

GarbageWord == [i \in 1..8 |-> 85]

DataWord == <<42, 0, 0, 0, 0, 0, 0, 0>>

LeafWord(kind) == IF kind = "S" THEN <<7, 0, 0, 0, 0, 0, 0, 0>>
                  ELSE <<97, 98, 0, 0, 0, 0, 0, 0>>

ItemKinds == {"G", "S", "T", "N"}

Layouts(n) == UNION {[1..k -> ItemKinds] : k \in 0..n}

\* a pointer of offset off to an item of the given kind
PtrTo(kind, off) ==
    CASE kind = "S" -> new_struct(off, 1, 0)
      [] kind = "T" -> new_list(off, LIST_SIZE_8, 3)
      [] OTHER -> new_struct(off, 0, 1)

\* the item the node at index j of the layout points to (0: none)
ChildOf(lay, j) ==
    LET leaves == {c \in (j + 1)..Len(lay) : lay[c] \in {"S", "T"}}
    IN  IF leaves = {} THEN 0 ELSE SetMax(leaves)

LayoutWord(lay, j) ==
    CASE lay[j] = "G" -> GarbageWord
      [] lay[j] \in {"S", "T"} -> LeafWord(lay[j])
      [] OTHER -> IF ChildOf(lay, j) = 0 THEN NullPtr
                  ELSE PtrTo(lay[ChildOf(lay, j)], ChildOf(lay, j) - j - 1)

\* every word of the layout that is not garbage is pointed to
AllReferenced(lay, tgt) ==
    \A j \in 1..Len(lay) :
        lay[j] = "G"
        \/ (\E i \in DOMAIN tgt : tgt[i] = j)
        \/ (\E k \in 1..Len(lay) : lay[k] = "N" /\ ChildOf(lay, k) = j)

\* the view: tgt[i] is the item pointer i of the body points to (0: null)
MakeView(g0, ds, lay, tgt) ==
    LET ps == Len(tgt)
        buf == Concat([i \in 1..g0 |-> GarbageWord])
               \o Concat([i \in 1..ds |-> DataWord])
               \o Concat([i \in 1..ps |->
                     IF tgt[i] = 0 THEN NullPtr
                     ELSE PtrTo(lay[tgt[i]], (ps - i) + (tgt[i] - 1))])
               \o Concat([j \in 1..Len(lay) |-> LayoutWord(lay, j)])
    IN  struct_from_buffer(buf, g0 * 8, ds, ps)

Targets(lay, ps) ==
    {tgt \in [1..ps -> 0..Len(lay)] :
        /\ \A i \in 1..ps : tgt[i] = 0 \/ lay[tgt[i]] # "G"
        /\ AllReferenced(lay, tgt)}

InputViews(maxData, maxPtrs, maxGarbage0, maxExtra) ==
    {MakeView(g0, ds, lay, tgt) :
        <<g0, ds, lay, tgt>> \in
            {q \in (0..maxGarbage0) \X (0..maxData) \X Layouts(maxExtra)
                     \X UNION {[1..ps -> 0..maxExtra] : ps \in 0..maxPtrs} :
                q[4] \in Targets(q[3], Len(q[4]))}}

BuilderIdle == bld = Idle /\ prev = Idle /\ call = Idle /\ slots = Idle

StructIdle == st = Idle /\ cx = Idle /\ ccx = Idle /\ rd = Idle

SegIdle == seg = Idle /\ shadow = Idle /\ segcall = Idle

----------------------------------------------------------------------------
(* Compaction of a struct view, and of its result *)

InitCompact ==
    /\ st \in InputViews(MaxDataWords, MaxPtrs, MaxGarbage0, MaxExtraWords)
    /\ cx = Idle /\ ccx = Idle /\ rd = Idle
    /\ BuilderIdle /\ SegIdle

Compact ==
    /\ cx = Idle
    /\ cx' = compact(st)
    /\ UNCHANGED <<bld, prev, call, slots, st, ccx, rd, seg, shadow, segcall>>

CompactAgain ==
    /\ cx \notin {Idle, Failed}
    /\ ccx = Idle
    /\ ccx' = compact(cx)
    /\ UNCHANGED <<bld, prev, call, slots, st, cx, rd, seg, shadow, segcall>>

NextCompact == Compact \/ CompactAgain

SpecCompact == InitCompact /\ [][NextCompact]_vars

----------------------------------------------------------------------------
(* Claims about compaction *)

\* where the pointer in slot i of a view points, and where the body of its target ends
TargetStart(v, i) == v.ptrs_offset + ptr_deref(read_fast_ptr(v, i * 8).p, i * 8)

TargetBodyEnd(v, i) ==
    LET p == read_fast_ptr(v, i * 8).p
    IN  IF ptr_kind(p) = STRUCT
        THEN TargetStart(v, i) + (struct_data_size(p) + struct_ptrs_size(p)) * 8
        ELSE TargetStart(v, i)
             + RoundUpToWord(list_item_count(p) * LIST_SIZE_LENGTH(list_size_tag(p)))

\* the targets of the body's pointers come in the order of the pointers
TargetsInOrder(v) ==
    \A i, j \in NonNullSlots(v) : i < j => TargetStart(v, i) <= TargetStart(v, j)

\* C2: compact(compact(x)) has the buffer of compact(x), byte for byte (stated
\* for the inputs on which both compactions return a view).
C2_CompactIdempotent ==
    (cx \notin {Idle, Failed} /\ ccx \notin {Idle, Failed}) => ccx.buf = cx.buf

\* C3: after compact() every non-null pointer of the body points into the extra
\* region of the new buffer: at or after the end of the body and before the end
\* of the buffer.
C3_TargetsInsideExtra ==
    cx \notin {Idle, Failed} =>
        \A i \in NonNullSlots(cx) :
            /\ TargetStart(cx, i) >= get_body_end(cx)
            /\ TargetBodyEnd(cx, i) <= Len(cx.buf)

----------------------------------------------------------------------------
(* Struct: field reads.  A read returns [val, accessed, err]: the value,   *)
(* whether the buffer was read, and whether the read raised.  An integer   *)
(* is kept as its 8 little-endian bytes, like a pointer.                   *)

IntVal(bytes) == [kind |-> "int", bytes |-> bytes]

NoneVal == [kind |-> "none"]

DefaultVal == [kind |-> "default"]

Raised == [val |-> NoneVal, accessed |-> TRUE, err |-> TRUE]

\* how a field is packed: its width in bytes and whether it is signed
Ifmts == {[width |-> w, signed |-> sg] : w \in {1, 2, 4, 8}, sg \in BOOLEAN}

int16_ifmt == [width |-> 2, signed |-> TRUE]

uint8_ifmt == [width |-> 1, signed |-> FALSE]

\* the integer held by little-endian bytes, widened to 64 bits
Widen(bytes, signed) ==
    bytes \o [i \in 1..(8 - Len(bytes)) |->
                 IF signed /\ bytes[Len(bytes)] >= 128 THEN 255 ELSE 0]

\* segment.read_primitive
seg_read_primitive(buf, offset, ifmt) ==
    IF offset < 0 \/ offset + ifmt.width > Len(buf) THEN Raised
    ELSE [val |-> IntVal(Widen(SubSeq(buf, offset + 1, offset + ifmt.width), ifmt.signed)),
          accessed |-> TRUE, err |-> FALSE]

\* Struct._read_data
read_data(v, offset, ifmt) ==
    IF offset >= v.data_size * 8
    THEN [val |-> IntVal(Zeros(8)), accessed |-> FALSE, err |-> FALSE]
    ELSE seg_read_primitive(v.buf, v.data_offset + offset, ifmt)

\* Struct._read_data_int16
read_data_int16(v, offset) ==
    IF offset >= v.data_size * 8
    THEN [val |-> IntVal(Zeros(8)), accessed |-> FALSE, err |-> FALSE]
    ELSE seg_read_primitive(v.buf, v.data_offset + offset, int16_ifmt)

\* Struct._read_bit: bool(val & bitmask), for the bitmask 2^bit
read_bit(v, offset, bit) ==
    LET r == read_data(v, offset, uint8_ifmt)
    IN  IF r.err THEN r
        ELSE [r EXCEPT !.val =
                IntVal(<<(r.val.bytes[1] \div (2 ^ bit)) % 2>> \o Zeros(7))]

\* Struct._read_enum: the enum type is built from the 16-bit value read
read_enum(v, offset) == read_data(v, offset, int16_ifmt)

\* segment.read_far_ptr: the landing pad of the far pointer at offset, and its pointer
seg_read_far_ptr(buf, offset) ==
    LET far == ReadWord(buf, offset)
        pad == IF far = <<>> THEN -1
               ELSE 8 * ((far[1] \div 8) + 32 * UnpackLE(SubSeq(far, 2, 4)))
    IN  [offset |-> pad, p |-> ReadWord(buf, pad)]

\* Struct._read_far_ptr
read_far_ptr(v, offset) ==
    IF offset >= v.ptrs_size * 8
    THEN [offset |-> offset, p |-> NullPtr]
    ELSE seg_read_far_ptr(v.buf, v.ptrs_offset + offset)

\* the first lines of every pointer read: the pointer, far pointers followed, and
\* the offset it is relative to
read_ptr(v, offset) ==
    LET f == read_fast_ptr(v, offset)
    IN  IF f.p # <<>> /\ ptr_kind(f.p) = FAR
        THEN LET r == read_far_ptr(v, offset)
             IN  [p |-> r.p, offset |-> r.offset, accessed |-> TRUE]
        ELSE [p |-> f.p, offset |-> offset + v.ptrs_offset, accessed |-> f.accessed]

\* Struct._read_struct
read_struct(v, offset) ==
    LET r == read_ptr(v, offset)
    IN  IF r.p = <<>> THEN Raised
        ELSE IF r.p = NullPtr
        THEN [val |-> NoneVal, accessed |-> r.accessed, err |-> FALSE]
        ELSE IF ptr_kind(r.p) # STRUCT THEN Raised
        ELSE LET s == struct_from_buffer(v.buf, ptr_deref(r.p, r.offset),
                         struct_data_size(r.p), struct_ptrs_size(r.p))
             IN  IF struct_fits(s)
                 THEN [val |-> [kind |-> "struct", view |-> [s EXCEPT !.buf = <<>>]],
                       accessed |-> TRUE, err |-> FALSE]
                 ELSE Raised

\* List._set_list_tag, on a list view created by List._init_from_buffer
list_from_buffer(buf, offset, size_tag, item_count) ==
    IF size_tag = LIST_SIZE_COMPOSITE
    THEN LET tag == ReadWord(buf, offset)
         IN  IF tag = <<>> THEN [err |-> TRUE]
             ELSE [err |-> FALSE, offset |-> offset, size_tag |-> size_tag, tag |-> tag,
                   item_count |-> ptr_offset(tag),
                   item_length |-> (struct_data_size(tag) + struct_ptrs_size(tag)) * 8,
                   item_offset |-> 8]
    ELSE IF size_tag = LIST_SIZE_BIT THEN [err |-> TRUE]
    ELSE [err |-> FALSE, offset |-> offset, size_tag |-> size_tag, tag |-> <<>>,
          item_count |-> item_count,
          item_length |-> LIST_SIZE_LENGTH(size_tag),
          item_offset |-> 0]

\* Struct._read_list
read_list(v, offset) ==
    LET r == read_ptr(v, offset)
    IN  IF r.p = <<>> THEN Raised
        ELSE IF r.p = NullPtr
        THEN [val |-> DefaultVal, accessed |-> r.accessed, err |-> FALSE]
        ELSE IF ptr_kind(r.p) # LIST THEN Raised
        ELSE LET l == list_from_buffer(v.buf, ptr_deref(r.p, r.offset),
                         list_size_tag(r.p), list_item_count(r.p))
             IN  IF l.err THEN Raised
                 ELSE [val |-> [kind |-> "list", view |-> l], accessed |-> TRUE,
                       err |-> FALSE]

\* segment.read_str: the bytes of the byte list p points to, or the default for null
seg_read_str(buf, p, offset, additional_size) ==
    IF p = NullPtr THEN [val |-> DefaultVal, err |-> FALSE]
    ELSE IF ptr_kind(p) # LIST \/ list_size_tag(p) # LIST_SIZE_8 THEN [val |-> NoneVal, err |-> TRUE]
    ELSE LET start == ptr_deref(p, offset)
             end == start + list_item_count(p) + additional_size
         IN  IF start < 0 \/ end > Len(buf) THEN [val |-> NoneVal, err |-> TRUE]
             ELSE [val |-> [kind |-> "str", bytes |-> Slice(buf, start, end)], err |-> FALSE]

\* Struct._read_str_data
read_str_data(v, offset, additional_size) ==
    LET r == read_ptr(v, offset)
    IN  IF r.p = <<>> THEN Raised
        ELSE LET s == seg_read_str(v.buf, r.p, r.offset, additional_size)
             IN  [val |-> s.val, accessed |-> r.accessed \/ r.p # NullPtr, err |-> s.err]

\* Struct._read_str_text
read_str_text(v, offset) == read_str_data(v, offset, -1)

----------------------------------------------------------------------------
(* Field reads on a struct view, at offsets inside and beyond its sections *)

\* a struct whose only pointer is a far pointer to a landing pad at byte 8
FarView ==
    struct_from_buffer(<<10, 0, 0, 0, 0, 0, 0, 0>> \o new_struct(0, 1, 0) \o LeafWord("S"),
                       0, 0, 1)

DataOffsets(width) == {o \in 0..((MaxReadData + 1) * 8) : o % width = 0}

PtrOffsets == {8 * i : i \in 0..(MaxReadPtrs + 1)}

InitRead ==
    /\ st \in InputViews(MaxReadData, MaxReadPtrs, 1, 1) \cup {FarView}
    /\ cx = Idle /\ ccx = Idle /\ rd = Idle
    /\ BuilderIdle /\ SegIdle

Read(op, offset, res) ==
    /\ rd' = [op |-> op, offset |-> offset, val |-> res.val,
              accessed |-> res.accessed, err |-> res.err]
    /\ UNCHANGED <<bld, prev, call, slots, st, cx, ccx, seg, shadow, segcall>>

ReadData ==
    \E ifmt \in Ifmts : \E o \in DataOffsets(ifmt.width) :
        Read("read_data", o, read_data(st, o, ifmt))

ReadDataInt16 == \E o \in DataOffsets(2) : Read("read_data_int16", o, read_data_int16(st, o))

ReadBit == \E o \in DataOffsets(1) : \E bit \in 0..7 : Read("read_bit", o, read_bit(st, o, bit))

ReadEnum == \E o \in DataOffsets(2) : Read("read_enum", o, read_enum(st, o))

ReadStruct == \E o \in PtrOffsets : Read("read_struct", o, read_struct(st, o))

ReadList == \E o \in PtrOffsets : Read("read_list", o, read_list(st, o))

ReadStrText == \E o \in PtrOffsets : Read("read_str_text", o, read_str_text(st, o))

ReadStrData == \E o \in PtrOffsets : Read("read_str_data", o, read_str_data(st, o, 0))

NextRead ==
    \/ ReadData \/ ReadDataInt16 \/ ReadBit \/ ReadEnum
    \/ ReadStruct \/ ReadList \/ ReadStrText \/ ReadStrData

SpecRead == InitRead /\ [][NextRead]_vars

DataReads == {"read_data", "read_data_int16", "read_bit", "read_enum"}

PtrReads == {"read_struct", "read_list", "read_str_text", "read_str_data"}

\* C4: a primitive, bit, enum or 16-bit read at an offset >= data_size*8 returns
\* 0, and a pointer read at an offset >= ptrs_size*8 finds the null pointer, so
\* that a struct read returns None and a list or text read the default; none of
\* them reads the buffer and none raises.
C4_ReadBeyondSizeIsDefault ==
    /\ (rd # Idle /\ rd.op \in DataReads /\ rd.offset >= st.data_size * 8) =>
           (rd.val = IntVal(Zeros(8)) /\ ~rd.accessed /\ ~rd.err)
    /\ (rd # Idle /\ rd.op \in PtrReads /\ rd.offset >= st.ptrs_size * 8) =>
           (/\ rd.val = (IF rd.op = "read_struct" THEN NoneVal ELSE DefaultVal)
            /\ ~rd.accessed /\ ~rd.err)

\* a list read at the first offset beyond a pointer section that is followed, in
\* the buffer, by a word that is not null
C4_Witness ==
    /\ rd # Idle /\ rd.op = "read_list"
    /\ st.ptrs_size >= 1 /\ rd.offset = st.ptrs_size * 8
    /\ ReadWord(st.buf, st.ptrs_offset + rd.offset) \notin {<<>>, NullPtr}
    /\ rd.val = DefaultVal

----------------------------------------------------------------------------
(* AbstractBuilder, Builder and ListBuilder.  A builder is a record: cls,  *)
(* the fields _length, _extra and _total_length, the Builder's _buf, and   *)
(* the ListBuilder's item_type, item_length, size_tag, item_count and      *)
(* _items.  pads is not a field of the program: it records which chunks of *)
(* _extra were appended as padding.                                        *)

\* AbstractBuilder._init_builder
init_builder(b, length) ==
    [b EXCEPT !.length = length, !.extra = <<>>, !.total_length = length, !.pads = {}]

\* force_alignment with a fault: no padding appended
force_alignment_nopad(b) == b

\* AbstractBuilder._force_alignment
force_alignment(b) ==
    LET padding == 8 - (b.total_length % 8)
    IN  IF padding # 8
        THEN [b EXCEPT !.extra = Append(b.extra, Zeros(padding)),
                       !.total_length = b.total_length + padding,
                       !.pads = b.pads \cup {Len(b.extra) + 1}]
        ELSE b

\* AbstractBuilder._alloc
alloc(b, s) ==
    force_alignment([b EXCEPT !.extra = Append(b.extra, s),
                              !.total_length = b.total_length + Len(s)])

\* Builder._record_allocation writes the pointer; AbstractBuilder's does nothing
record_allocation(b, offset, p) ==
    IF b.cls = "Builder" THEN [b EXCEPT !.buf = WriteWord(b.buf, offset, p)] ELSE b

\* calc_relative_offset with a fault: the offset counted from the start of the pointer word, not from its end
calc_relative_offset_from_ptr(b, offset) == (b.total_length - offset) \div 8

\* AbstractBuilder._calc_relative_offset
calc_relative_offset(b, offset) == (b.total_length - (offset + 8)) \div 8

\* what a call returns: the builder after it, the value returned, whether it raised
Returned(b, ret) == [b |-> b, ret |-> ret, err |-> FALSE]

Raise(b) == [b |-> b, ret |-> NullPtr, err |-> TRUE]

None == [kind |-> "none"]

WrongType == [kind |-> "wrong"]

\* alloc_struct with a fault: the relative offset computed after the chunk is appended
alloc_struct_post_append(b, offset, value) ==
    IF value = None THEN Returned(b, NullPtr)
    ELSE IF value = WrongType THEN Raise(b)
    ELSE LET c == compact(value)
         IN  IF c = Failed THEN Raise(b)
             ELSE LET b1 == alloc(b, c.buf)
                      p == new_struct(calc_relative_offset(b1, offset),
                                      value.data_size, value.ptrs_size)
                  IN  Returned(record_allocation(b1, offset, p), p)

\* AbstractBuilder.alloc_struct; value is None, a view, or a value of another type
alloc_struct(b, offset, value) ==
    IF value = None THEN Returned(b, NullPtr)
    ELSE IF value = WrongType THEN Raise(b)
    ELSE LET ptr_off == calc_relative_offset(b, offset)
             p == new_struct(ptr_off, value.data_size, value.ptrs_size)
             c == compact(value)
         IN  IF c = Failed THEN Raise(b)
             ELSE Returned(record_allocation(alloc(b, c.buf), offset, p), p)

\* alloc_data with a fault: None treated as the empty string
alloc_data_none_as_empty(b, offset, value, suffix) ==
    LET v == (IF value = None THEN <<>> ELSE value.s) \o suffix
        ptr_off == calc_relative_offset(b, offset)
        p == new_list(ptr_off, LIST_SIZE_8, Len(v))
    IN  Returned(record_allocation(alloc(b, v), offset, p), p)

\* AbstractBuilder.alloc_data; value is None or [kind |-> "bytes", s |-> the bytes]
alloc_data(b, offset, value, suffix) ==
    IF value = None THEN Returned(b, NullPtr)
    ELSE LET v == value.s \o suffix
             ptr_off == calc_relative_offset(b, offset)
             p == new_list(ptr_off, LIST_SIZE_8, Len(v))
         IN  Returned(record_allocation(alloc(b, v), offset, p), p)

\* AbstractBuilder.alloc_text
alloc_text(b, offset, value) == alloc_data(b, offset, value, <<0>>)

\* new_ptrlist with a fault: the composite pointer carrying the item count instead of the total words
new_ptrlist_item_count(b, size_tag, ptr_off, item_type, item_count) ==
    IF size_tag # LIST_SIZE_COMPOSITE
    THEN [b |-> b, p |-> new_list(ptr_off, size_tag, item_count)]
    ELSE LET tag == new_struct(item_count, item_type.static_data_size,
                               item_type.static_ptrs_size)
         IN  [b |-> alloc(b, tag),
              p |-> new_list(ptr_off, LIST_SIZE_COMPOSITE, item_count)]

\* AbstractBuilder._new_ptrlist: the builder (the tag emitted) and the pointer
new_ptrlist(b, size_tag, ptr_off, item_type, item_count) ==
    IF size_tag # LIST_SIZE_COMPOSITE
    THEN [b |-> b, p |-> new_list(ptr_off, size_tag, item_count)]
    ELSE LET data_size == item_type.static_data_size
             ptrs_size == item_type.static_ptrs_size
             total_words == (data_size + ptrs_size) * item_count
             tag == new_struct(item_count, data_size, ptrs_size)
         IN  [b |-> alloc(b, tag),
              p |-> new_list(ptr_off, LIST_SIZE_COMPOSITE, total_words)]

\* an object fresh from __new__, before _init
NewObject(cls) ==
    [cls |-> cls, length |-> 0, extra |-> <<>>, total_length |-> 0, pads |-> {},
     buf |-> <<>>, item_type |-> None, item_length |-> 0, size_tag |-> 0,
     item_count |-> 0, items |-> <<>>]

\* Builder._init
builder_init(data_size, ptrs_size) ==
    LET length == (data_size + ptrs_size) * 8
    IN  [init_builder(NewObject("Builder"), length) EXCEPT !.buf = Zeros(length)]

\* Builder.build
build(b) == b.buf \o Concat(b.extra)

\* the item types: a primitive of a width, a struct of static sizes, text
PrimitiveItemType(width) == [kind |-> "primitive", width |-> width]

StructItemType(data_size, ptrs_size) ==
    [kind |-> "struct", static_data_size |-> data_size, static_ptrs_size |-> ptrs_size]

TextItemType == [kind |-> "text"]

\* item_type.get_item_length: the length of an item in bytes, and the size tag
get_item_length(item_type) ==
    CASE item_type.kind = "primitive" ->
            [item_length |-> item_type.width,
             size_tag |-> CASE item_type.width = 1 -> LIST_SIZE_8
                            [] item_type.width = 2 -> LIST_SIZE_16
                            [] item_type.width = 4 -> LIST_SIZE_32
                            [] OTHER -> LIST_SIZE_64]
      [] item_type.kind = "struct" ->
            [item_length |-> (item_type.static_data_size + item_type.static_ptrs_size) * 8,
             size_tag |-> LIST_SIZE_COMPOSITE]
      [] OTHER -> [item_length |-> 8, size_tag |-> LIST_SIZE_PTR]

\* ListBuilder._init
listbuilder_init(item_type, item_count) ==
    LET g == get_item_length(item_type)
        b == [NewObject("ListBuilder") EXCEPT !.item_type = item_type,
                 !.item_length = g.item_length, !.size_tag = g.size_tag,
                 !.item_count = item_count, !.items = <<>>]
    IN  force_alignment(init_builder(b, g.item_length * item_count))

\* ListBuilder.append
append(b, item) == [b EXCEPT !.items = Append(b.items, item)]

\* ListBuilder.build, with its two assertions
listbuilder_build(b) ==
    LET listbody == Concat(b.items)
    IN  [s |-> listbody \o Concat(b.extra),
         err |-> Len(b.items) # b.item_count \/ Len(listbody) # b.length]

\* item_type.pack_item: the list builder after the item's extra part was
\* allocated, and the bytes of the item.  A primitive is packed in place; a text
\* is allocated in the list builder and its pointer is the item; a struct is
\* split, its pointers moved to where its extra part lands after the list body.
pack_item(item_type, lb, i, item) ==
    CASE item_type.kind = "primitive" ->
            [lb |-> lb, s |-> PackLE(item, item_type.width), err |-> FALSE]
      [] item_type.kind = "text" ->
            LET r == alloc_text(lb, i * 8, item)
            IN  [lb |-> r.b, s |-> r.ret, err |-> r.err]
      [] OTHER ->
            LET extra_offset == (lb.total_length - (i + 1) * lb.item_length) \div 8
                sp == split(item, extra_offset)
            IN  [lb |-> IF sp.err THEN lb ELSE alloc(lb, sp.extra),
                 s |-> sp.body, err |-> sp.err]

\* the loop of alloc_list: items i.. of lst packed and appended
RECURSIVE pack_items(_, _, _, _)
pack_items(item_type, lb, lst, i) ==
    IF i >= Len(lst) THEN [lb |-> lb, err |-> FALSE]
    ELSE LET r == pack_item(item_type, lb, i, lst[i + 1])
         IN  IF r.err THEN [lb |-> lb, err |-> TRUE]
             ELSE pack_items(item_type, append(r.lb, r.s), lst, i + 1)

\* AbstractBuilder.alloc_list; lst is None or [kind |-> "list", items |-> the items]
alloc_list(b, offset, item_type, lst) ==
    IF lst = None THEN Returned(b, NullPtr)
    ELSE LET item_count == Len(lst.items)
             packed == pack_items(item_type, listbuilder_init(item_type, item_count),
                                  lst.items, 0)
             listbuilder == packed.lb
             ptr_off == calc_relative_offset(b, offset)
             r == new_ptrlist(b, listbuilder.size_tag, ptr_off, item_type, item_count)
             body == listbuilder_build(listbuilder)
         IN  IF packed.err THEN Raise(b)
             ELSE IF body.err THEN Raise(r.b)
             ELSE Returned(record_allocation(alloc(r.b, body.s), offset, r.p), r.p)

----------------------------------------------------------------------------
(* Calls on one builder.  The builder starts as a Builder of some shape or *)
(* as a ListBuilder of some item type and count.                           *)

Bytes(n) == [kind |-> "bytes", s |-> [i \in 1..n |-> 97]]

\* a struct of one data word after a word of garbage
ValueA == MakeView(1, 1, <<>>, <<>>)

\* a struct of a data word and a pointer to a text, a word of garbage between them
ValueB == MakeView(0, 1, <<"G", "T">>, <<2>>)

\* a struct of a data word and a null pointer
ItemA == MakeView(0, 1, <<>>, <<0>>)

StructValues == {None, WrongType, ValueA, ValueB}

DataValues == {None, Bytes(1), Bytes(8)}

TextValues == {None, Bytes(0), Bytes(7)}

ListOf(items) == [kind |-> "list", items |-> items]

\* the lists handed to alloc_list, each with its item type
ListValues ==
    {<<PrimitiveItemType(1), ListOf([i \in 1..n |-> 200])>> : n \in 0..MaxItems}
    \cup {<<TextItemType, ListOf([i \in 1..n |-> Bytes(2)])>> : n \in 0..MaxItems}
    \cup {<<StructItemType(1, 1), ListOf([i \in 1..n |-> ItemA])>> : n \in 0..MaxItems}
    \cup {<<StructItemType(1, 1), ListOf([i \in 1..n |-> IF i = 1 THEN ValueB ELSE ItemA])>> :
             n \in 1..MaxItems}
    \cup {<<TextItemType, None>>}

BuilderShapes == {<<0, 1>>, <<1, 2>>}

InitBuilder ==
    /\ \/ \E sh \in BuilderShapes :
            /\ bld = builder_init(sh[1], sh[2])
            /\ slots = [o \in {(sh[1] + i) * 8 : i \in 0..(sh[2] - 1)} |-> 0]
       \/ \E item_type \in {TextItemType, PrimitiveItemType(1)} : \E n \in 0..MaxItems :
            /\ bld = listbuilder_init(item_type, n)
            /\ slots = [o \in IF item_type = TextItemType THEN {8 * i : i \in 0..(n - 1)}
                                                          ELSE {} |-> 0]
    /\ prev = bld
    /\ call = [op |-> "init", n |-> 0]
    /\ StructIdle /\ SegIdle

\* a call of op at offset with the argument arg (and the item type of a list),
\* returning r
Call(op, offset, arg, item_type, r) ==
    /\ call.n < MaxAllocs
    /\ bld' = r.b
    /\ prev' = bld
    /\ call' = [op |-> op, n |-> call.n + 1, offset |-> offset, arg |-> arg,
                item_type |-> item_type, ret |-> r.ret, err |-> r.err,
                first_chunk |-> Len(bld.extra) + 1]
    /\ slots' = IF bld.cls = "Builder" /\ arg # None /\ ~r.err
                THEN [slots EXCEPT ![offset] = Len(bld.extra) + 1]
                ELSE slots
    /\ UNCHANGED <<st, cx, ccx, rd, seg, shadow, segcall>>

AllocStruct ==
    \E offset \in DOMAIN slots : \E value \in StructValues :
        Call("alloc_struct", offset, value, None, alloc_struct(bld, offset, value))

AllocData ==
    \E offset \in DOMAIN slots : \E value \in DataValues :
        Call("alloc_data", offset, value, None, alloc_data(bld, offset, value, <<>>))

AllocText ==
    \E offset \in DOMAIN slots : \E value \in TextValues :
        Call("alloc_text", offset, value, None, alloc_text(bld, offset, value))

AllocList ==
    \E offset \in DOMAIN slots : \E lv \in ListValues :
        Call("alloc_list", offset, lv[2], lv[1], alloc_list(bld, offset, lv[1], lv[2]))

ListAppend ==
    /\ bld.cls = "ListBuilder"
    /\ call.n < MaxAllocs
    /\ bld' = append(bld, Zeros(bld.item_length))
    /\ prev' = bld
    /\ call' = [op |-> "append", n |-> call.n + 1]
    /\ UNCHANGED <<slots, st, cx, ccx, rd, seg, shadow, segcall>>

NextBuilder == AllocStruct \/ AllocData \/ AllocText \/ AllocList \/ ListAppend

SpecBuilder == InitBuilder /\ [][NextBuilder]_vars

Allocs == {"alloc_struct", "alloc_data", "alloc_text", "alloc_list"}

\* where chunk k of _extra begins in the output of build()
ChunkStart(b, k) == b.length + SumLen(SubSeq(b.extra, 1, k - 1))

----------------------------------------------------------------------------
(* Claims about the builders *)

\* C1: every pointer written into the body of a Builder at offset off holds a
\* word offset k with off + 8 + 8*k the position, in the output of build(), at
\* which the first chunk appended by the call that wrote it begins.
C1_PointerReachesItsChunk ==
    bld.cls = "Builder" =>
        \A off \in DOMAIN slots :
            slots[off] # 0 =>
                off + 8 + 8 * ptr_offset(ReadWord(build(bld), off))
                    = ChunkStart(bld, slots[off])

\* two pointers of one body, written by two calls, the second call a list of
\* structs, whose first chunk is its tag
C1_Witness ==
    /\ bld.cls = "Builder"
    /\ \E o1, o2 \in DOMAIN slots :
          /\ 0 < slots[o1] /\ slots[o1] < slots[o2]
          /\ ChunkStart(bld, slots[o1]) < ChunkStart(bld, slots[o2])
    /\ call.op = "alloc_list" /\ call.item_type.kind = "struct" /\ ~call.err
    /\ Len(call.arg.items) > 0

\* C5: the total length of a builder is always a multiple of 8 and is the length
\* of what it has emitted, every chunk that is not padding begins at a multiple
\* of 8, and every chunk of padding is made of zeros.
C5_Aligned ==
    /\ bld.total_length % 8 = 0
    /\ bld.total_length = bld.length + SumLen(bld.extra)
    /\ \A k \in 1..Len(bld.extra) :
          IF k \in bld.pads
          THEN /\ bld.extra[k] = Zeros(Len(bld.extra[k]))
               /\ (ChunkStart(bld, k) + Len(bld.extra[k])) % 8 = 0
          ELSE ChunkStart(bld, k) % 8 = 0

\* a list builder in which two texts were allocated, each followed by padding
C5_Witness ==
    /\ bld.cls = "ListBuilder" /\ call.op = "alloc_text"
    /\ Cardinality(bld.pads) >= 2

\* C6: an alloc_* call given None returns the null pointer and leaves the
\* builder as it was.
C6_NoneAllocatesNothing ==
    (call.op \in Allocs /\ call.arg = None) =>
        (call.ret = NullPtr /\ ~call.err /\ bld = prev)

\* alloc_data given None on a builder that holds chunks already
C6_Witness ==
    /\ call.op = "alloc_data" /\ call.arg = None
    /\ Len(bld.extra) > 0

\* the list view a reader builds from the pointer a call returned
ListViewOf(b, offset, p) ==
    list_from_buffer(build(b), ptr_deref(p, offset), list_size_tag(p), list_item_count(p))

\* C7: for a list of N structs, alloc_list returns a pointer with the composite
\* size tag and the count (data_size+ptrs_size)*N; the first chunk it emits is
\* the tag word, holding N and the sizes of an item, and the next chunk begins
\* with the N item bodies; a list view built from the pointer has N items.
C7_CompositeList ==
    (call.op = "alloc_list" /\ call.arg # None /\ ~call.err
        /\ call.item_type.kind = "struct") =>
        LET n == Len(call.arg.items)
            ds == call.item_type.static_data_size
            ps == call.item_type.static_ptrs_size
            tag == bld.extra[call.first_chunk]
            body == bld.extra[call.first_chunk + 1]
        IN  /\ ptr_kind(call.ret) = LIST
            /\ list_size_tag(call.ret) = LIST_SIZE_COMPOSITE
            /\ list_item_count(call.ret) = (ds + ps) * n
            /\ Len(tag) = 8 /\ ptr_kind(tag) = STRUCT /\ ptr_offset(tag) = n
            /\ struct_data_size(tag) = ds /\ struct_ptrs_size(tag) = ps
            /\ Len(body) >= n * (ds + ps) * 8
            /\ \A i \in 1..n :
                  Slice(body, (i - 1) * (ds + ps) * 8, (i - 1) * (ds + ps) * 8 + ds * 8)
                  = Slice(call.arg.items[i].buf, call.arg.items[i].data_offset,
                          call.arg.items[i].ptrs_offset)
            /\ bld.cls = "Builder" =>
                  LET l == ListViewOf(bld, call.offset, call.ret)
                  IN  ~l.err /\ l.item_count = n /\ l.item_length = (ds + ps) * 8

\* a list of two structs, of two words each, allocated in a Builder
C7_Witness ==
    /\ call.op = "alloc_list" /\ call.arg # None /\ ~call.err
    /\ call.item_type.kind = "struct" /\ Len(call.arg.items) = 2
    /\ bld.cls = "Builder"
    /\ list_item_count(call.ret) = 4

----------------------------------------------------------------------------
(* SegmentBuilder: a buffer of length bytes of which the first end are     *)
(* allocated.  It grows to the larger of twice its length and the size the *)
(* allocation needs.                                                       *)

\* SegmentBuilder(length)
segment_builder(length) == [buf |-> Zeros(length), length |-> length, end |-> 0]

\* resize with a fault: the length doubled whatever the request
resize_doubling(sb, needed) ==
    [sb EXCEPT !.buf = sb.buf \o Zeros(sb.length), !.length = 2 * sb.length]

\* resize with a fault: the old bytes not copied
resize_nocopy(sb, needed) ==
    LET newlen == Max2(needed, 2 * sb.length)
    IN  [sb EXCEPT !.buf = Zeros(newlen), !.length = newlen]

\* the buffer reallocated to hold at least needed bytes, its bytes copied
resize(sb, needed) ==
    LET newlen == Max2(needed, 2 * sb.length)
    IN  [sb EXCEPT !.buf = sb.buf \o Zeros(newlen - sb.length), !.length = newlen]

\* SegmentBuilder.allocate: the builder after it and the position returned
allocate(sb, n) ==
    LET grown == IF sb.end + n > sb.length THEN resize(sb, sb.end + n) ELSE sb
    IN  [sb |-> [grown EXCEPT !.end = sb.end + n], ret |-> sb.end]

\* SegmentBuilder.write_int64, of a value held as its 8 bytes
write_int64(sb, pos, bytes) == [sb EXCEPT !.buf = WriteWord(sb.buf, pos, bytes)]

\* seg_alloc_struct with a fault: the offset counted from the start of the pointer word
seg_alloc_struct_from_ptr(sb, pos, data_size, ptrs_size) ==
    LET a == allocate(sb, (data_size + ptrs_size) * 8)
        p == new_struct((a.ret - pos) \div 8, data_size, ptrs_size)
    IN  [sb |-> write_int64(a.sb, pos, p), ret |-> a.ret]

\* SegmentBuilder.alloc_struct
seg_alloc_struct(sb, pos, data_size, ptrs_size) ==
    LET a == allocate(sb, (data_size + ptrs_size) * 8)
        p == new_struct((a.ret - (pos + 8)) \div 8, data_size, ptrs_size)
    IN  [sb |-> write_int64(a.sb, pos, p), ret |-> a.ret]

\* SegmentBuilder.as_string
as_string(sb) == Slice(sb.buf, 0, sb.end)

SegCapacities == {8, 16, 32, 64}

AllocSizes == {8, 16, 64, 4096}

StructShapes == {<<3, 0>>, <<1, 0>>, <<1, 1>>}

InitSeg ==
    /\ \E length \in SegCapacities :
          /\ seg = segment_builder(length)
          /\ segcall = <<[op |-> "new", length |-> length]>>
    /\ shadow = <<>>
    /\ BuilderIdle /\ StructIdle

\* the call added to those made, with the end and length it found
Logged(c) == Append(segcall, c @@ [pre_end |-> seg.end, pre_length |-> seg.length])

SegAllocate ==
    \E n \in AllocSizes :
        LET r == allocate(seg, n)
        IN  /\ Len(segcall) <= MaxSegCalls
            /\ seg.end + n <= MaxSegEnd
            /\ seg' = r.sb
            /\ shadow' = shadow \o Zeros(n)
            /\ segcall' = Logged([op |-> "allocate", n |-> n, ret |-> r.ret])
            /\ UNCHANGED <<bld, prev, call, slots, st, cx, ccx, rd>>

SegWriteInt64 ==
    \E pos \in {0, 8} : \E v \in {42, 305441741} :
        /\ Len(segcall) <= MaxSegCalls
        /\ pos + 8 <= seg.end
        /\ seg' = write_int64(seg, pos, PackLE(v, 8))
        /\ shadow' = WriteWord(shadow, pos, PackLE(v, 8))
        /\ segcall' = Logged([op |-> "write_int64", n |-> 0, pos |-> pos])
        /\ UNCHANGED <<bld, prev, call, slots, st, cx, ccx, rd>>

SegAllocStruct ==
    \E pos \in {0, 8} : \E sh \in StructShapes :
        LET r == seg_alloc_struct(seg, pos, sh[1], sh[2])
        IN  /\ Len(segcall) <= MaxSegCalls
            /\ pos + 8 <= seg.end
            /\ seg.end + (sh[1] + sh[2]) * 8 <= MaxSegEnd
            /\ seg' = r.sb
            /\ shadow' = WriteWord(shadow \o Zeros((sh[1] + sh[2]) * 8), pos,
                                   ReadWord(r.sb.buf, pos))
            /\ segcall' = Logged([op |-> "alloc_struct", n |-> (sh[1] + sh[2]) * 8,
                                  pos |-> pos, data_size |-> sh[1], ptrs_size |-> sh[2],
                                  ret |-> r.ret])
            /\ UNCHANGED <<bld, prev, call, slots, st, cx, ccx, rd>>

NextSeg == SegAllocate \/ SegWriteInt64 \/ SegAllocStruct

SpecSeg == InitSeg /\ [][NextSeg]_vars

LastSegCall == segcall[Len(segcall)]

RECURSIVE SumRequested(_)
SumRequested(cs) == IF cs = <<>> THEN 0
                    ELSE (IF Head(cs).op = "new" THEN 0 ELSE Head(cs).n)
                         + SumRequested(Tail(cs))

----------------------------------------------------------------------------
(* Claims about the SegmentBuilder *)

\* C8: an allocation that does not fit grows the buffer, in that call, to at
\* least the size it needs, and to exactly that size when it is more than twice
\* the length; allocate(4096) on a builder of length 32 and end 0 leaves length
\* 4096 and end 4096.
C8_GrowsToRequest ==
    LET c == LastSegCall
    IN  (c.op \in {"allocate", "alloc_struct"} /\ c.pre_end + c.n > c.pre_length) =>
            /\ seg.length >= c.pre_end + c.n
            /\ c.pre_end + c.n > 2 * c.pre_length => seg.length = c.pre_end + c.n
            /\ (c.pre_length = 32 /\ c.pre_end = 0 /\ c.n = 4096) =>
                   (seg.length = 4096 /\ seg.end = 4096)

\* allocate(4096) as the first call on a builder of length 32
C8_Witness ==
    /\ Len(segcall) = 2 /\ segcall[1].length = 32
    /\ LastSegCall.op = "allocate" /\ LastSegCall.n = 4096
    /\ seg.length = 4096

\* C9: allocate returns the end it found; end never exceeds length; as_string()
\* is as long as the sizes requested add up to; it holds what was written, growth
\* or not, and zeros where nothing was written.
C9_AllocateKeepsBytes ==
    /\ LastSegCall.op = "allocate" => LastSegCall.ret = LastSegCall.pre_end
    /\ seg.end <= seg.length
    /\ Len(seg.buf) = seg.length
    /\ Len(as_string(seg)) = SumRequested(segcall)
    /\ as_string(seg) = shadow

\* 42 written at 0, then an allocation that made the buffer grow
C9_Witness ==
    /\ Len(segcall) = 4
    /\ segcall[3].op = "write_int64" /\ segcall[3].pos = 0
    /\ segcall[4].op = "allocate" /\ segcall[4].pre_end + segcall[4].n > segcall[4].pre_length
    /\ ReadWord(as_string(seg), 0) = PackLE(42, 8)

\* C10: alloc_struct(pos, data_size, ptrs_size) allocates (data_size+ptrs_size)*8
\* bytes at the end, returns where they start, and writes at pos a struct pointer
\* of word offset (start - (pos+8))/8 and of those sizes; structs of shapes (3,0)
\* and (1,0) allocated into slots 0 and 8 of a parent of 16 bytes give the pointer
\* words (offset 1, data 3, ptrs 0) and (offset 3, data 1, ptrs 0).
C10_AllocStructPointer ==
    /\ LET c == LastSegCall
       IN  c.op = "alloc_struct" =>
            LET w == ReadWord(seg.buf, c.pos)
            IN  /\ c.ret = c.pre_end
                /\ seg.end = c.pre_end + (c.data_size + c.ptrs_size) * 8
                /\ ptr_kind(w) = STRUCT
                /\ c.pos + 8 + 8 * ptr_offset(w) = c.ret
                /\ struct_data_size(w) = c.data_size
                /\ struct_ptrs_size(w) = c.ptrs_size
    /\ (/\ Len(segcall) = 4
        /\ segcall[2].op = "allocate" /\ segcall[2].n = 16
        /\ segcall[3].op = "alloc_struct" /\ segcall[3].pos = 0
        /\ segcall[3].data_size = 3 /\ segcall[3].ptrs_size = 0
        /\ segcall[4].op = "alloc_struct" /\ segcall[4].pos = 8
        /\ segcall[4].data_size = 1 /\ segcall[4].ptrs_size = 0) =>
            /\ ReadWord(seg.buf, 0) = <<4, 0, 0, 0, 3, 0, 0, 0>>
            /\ ReadWord(seg.buf, 8) = <<12, 0, 0, 0, 1, 0, 0, 0>>
            /\ ptr_offset(ReadWord(seg.buf, 0)) = 1
            /\ ptr_offset(ReadWord(seg.buf, 8)) = 3

\* the two sibling structs allocated in a builder of length 64
C10_Witness ==
    /\ Len(segcall) = 4 /\ segcall[1].length = 64
    /\ segcall[2].op = "allocate" /\ segcall[2].n = 16
    /\ segcall[3].op = "alloc_struct" /\ segcall[3].pos = 0 /\ segcall[3].data_size = 3
    /\ segcall[4].op = "alloc_struct" /\ segcall[4].pos = 8 /\ segcall[4].data_size = 1
    /\ segcall[4].ptrs_size = 0 /\ segcall[3].ptrs_size = 0

----------------------------------------------------------------------------
(* Struct: the union tag.  A union struct type carries __tag_offset__, the *)
(* offset of its 16-bit tag in the data section, and __tag__, the enum of  *)
(* its variants; a type that is no union has __tag_offset__ = None.        *)

MaxUnionData == 2

MaxTag == 2

TagOffset(n) == [kind |-> "offset", n |-> n]

\* the names of the variants, by raw tag
VariantNames == [i \in 0..MaxTag |-> <<"variant", i>>]

\* __tag__(raw): the member of the enum of the variants that a raw tag stands for
tag_enum(val) ==
    IF \E i \in 0..MaxTag : val = IntVal(PackLE(i, 8))
    THEN [kind |-> "enum", raw |-> val,
          name |-> VariantNames[CHOOSE i \in 0..MaxTag : val = IntVal(PackLE(i, 8))]]
    ELSE [kind |-> "enum", raw |-> val, name |-> <<"unknown">>]

TypeErrorResult == [val |-> NoneVal, err |-> TRUE, exc |-> "TypeError"]

\* Struct.__which__
which_raw(v) ==
    IF v.tag_offset = None THEN TypeErrorResult
    ELSE LET r == read_data_int16(v, v.tag_offset.n)
         IN  [val |-> r.val, err |-> r.err, exc |-> IF r.err THEN "IndexError" ELSE ""]

\* Struct.which
which(v) ==
    LET r == which_raw(v)
    IN  IF r.err THEN r ELSE [r EXCEPT !.val = tag_enum(r.val)]

NoError == [err |-> FALSE, exc |-> "", expected |-> None, got |-> None]

\* _ensure_union with a fault: the message names the expected variant twice
ensure_union_names_expected(v, expected_tag) ==
    LET r == which_raw(v)
    IN  IF r.err THEN [NoError EXCEPT !.err = TRUE, !.exc = r.exc]
        ELSE IF r.val # IntVal(PackLE(expected_tag, 8))
             THEN [err |-> TRUE, exc |-> "ValueError",
                   expected |-> expected_tag,
                   got |-> tag_enum(IntVal(PackLE(expected_tag, 8)))]
             ELSE NoError

\* Struct._ensure_union: what it raises, and the two variants its message names
ensure_union(v, expected_tag) ==
    LET r == which_raw(v)
    IN  IF r.err THEN [NoError EXCEPT !.err = TRUE, !.exc = r.exc]
        ELSE IF r.val # IntVal(PackLE(expected_tag, 8))
             THEN LET tag == which(v)
                  IN  IF tag.err THEN [NoError EXCEPT !.err = TRUE, !.exc = tag.exc]
                      ELSE [err |-> TRUE, exc |-> "ValueError",
                            expected |-> expected_tag, got |-> tag.val]
             ELSE NoError

\* the raw tags stored in the inputs: the variants, and -1
StoredTags == (0..MaxTag) \cup {65535}

\* a struct of a union type: 16-bit tags at bytes 0 and 2 of its first data word
UnionView(data_size, t0, t2, tag_offset) ==
    LET first == PackLE(t0, 2) \o PackLE(t2, 2) \o <<0, 0, 0, 0>>
        buf   == IF data_size = 0 THEN <<>> ELSE first \o Zeros((data_size - 1) * 8)
    IN  struct_from_buffer(buf, 0, data_size, 0) @@ [tag_offset |-> tag_offset]

UnionViews ==
    {UnionView(ds, t0, t2, to) :
        ds \in 0..MaxUnionData, t0 \in StoredTags, t2 \in StoredTags,
        to \in {None} \cup {TagOffset(n) : n \in {0, 2} \cup {8 * i : i \in 1..MaxUnionData}}}

InitUnion ==
    /\ st \in UnionViews
    /\ cx = Idle /\ ccx = Idle /\ rd = Idle
    /\ BuilderIdle /\ SegIdle

Which ==
    /\ rd' = [op |-> "which"] @@ which(st)
    /\ UNCHANGED <<bld, prev, call, slots, st, cx, ccx, seg, shadow, segcall>>

EnsureUnion ==
    \E expected_tag \in 0..MaxTag :
        /\ rd' = [op |-> "ensure_union", expected_tag |-> expected_tag]
                     @@ ensure_union(st, expected_tag)
        /\ UNCHANGED <<bld, prev, call, slots, st, cx, ccx, seg, shadow, segcall>>

NextUnion == Which \/ EnsureUnion

SpecUnion == InitUnion /\ [][NextUnion]_vars

\* the 16-bit tag a union struct stores, 0 when its offset is beyond the data section
StoredTag(v) ==
    IF v.tag_offset.n >= v.data_size * 8 THEN IntVal(Zeros(8))
    ELSE IntVal(Widen(SubSeq(v.buf, v.data_offset + v.tag_offset.n + 1,
                             v.data_offset + v.tag_offset.n + 2), TRUE))

\* C11: on a struct of a union type, _ensure_union(expected) compares the stored
\* 16-bit tag, taken as 0 when the tag offset is beyond the data section, with
\* the expected variant: it returns when they are equal and otherwise raises a
\* ValueError whose message names the expected variant and the stored one.
C11_EnsureUnion ==
    (rd # Idle /\ rd.op = "ensure_union" /\ st.tag_offset # None) =>
        IF StoredTag(st) = IntVal(PackLE(rd.expected_tag, 8))
        THEN ~rd.err
        ELSE /\ rd.err /\ rd.exc = "ValueError"
             /\ rd.expected = rd.expected_tag
             /\ rd.got = tag_enum(StoredTag(st))
             /\ rd.got.raw # IntVal(PackLE(rd.expected, 8))

\* a mismatch on a struct whose tag offset is beyond its data section: the tag
\* is taken as 0 and the variant 1 was expected
C11_Witness ==
    /\ rd # Idle /\ rd.op = "ensure_union" /\ st.tag_offset # None
    /\ st.data_size = 1 /\ st.tag_offset.n = 8
    /\ rd.expected_tag = 1 /\ rd.err /\ rd.got.name = VariantNames[0]

----------------------------------------------------------------------------
(* Producers sharing one Builder.  An alloc_struct or alloc_data call is   *)
(* taken step by step: the relative offset and the pointer are computed,   *)
(* the chunk is appended, the total length is padded, the pointer is       *)
(* written.  call holds the frame of each producer, slots what was written *)
(* into each pointer slot: the chunk the writer appended and whether its   *)
(* call ran alone, no other call being under way at any of its steps.      *)

NProducers == 2

MaxThreadCalls == 2

Producers == 1..NProducers

IdleFrame == [pc |-> "idle", calls |-> 0]

NotWritten == [written |-> FALSE]

RECURSIVE CallsBegun(_, _)
\* the calls begun so far by the producers 1..t, returned or under way
CallsBegun(frames, t) ==
    IF t = 0 THEN 0
    ELSE CallsBegun(frames, t - 1) + frames[t].calls
             + (IF frames[t].pc = "idle" THEN 0 ELSE 1)

\* _alloc with a fault: the chunk appended, the total length left as it was
alloc_append_stale_total(b, s) == [b EXCEPT !.extra = Append(b.extra, s)]

\* AbstractBuilder._alloc, before _force_alignment: the chunk appended and counted
alloc_append(b, s) ==
    [b EXCEPT !.extra = Append(b.extra, s), !.total_length = b.total_length + Len(s)]

\* the non-null values the producers allocate: the pointer of each and its bytes
ThreadValues ==
    {[op |-> "alloc_data", s |-> v.s] : v \in {Bytes(3), Bytes(8)}}
    \cup {[op |-> "alloc_struct", data_size |-> v.data_size, ptrs_size |-> v.ptrs_size,
           s |-> compact(v).buf] : v \in {ValueB}}

InitThreads ==
    /\ bld = builder_init(0, 2)
    /\ prev = bld
    /\ call = [t \in Producers |-> IdleFrame]
    /\ slots = [o \in {0, 8} |-> NotWritten]
    /\ StructIdle /\ SegIdle

\* alloc_struct, alloc_data: the relative offset, then the pointer
StepCompute(t) ==
    /\ call[t].pc = "idle" /\ CallsBegun(call, NProducers) < MaxThreadCalls
    /\ \E offset \in DOMAIN slots : \E value \in ThreadValues :
         LET ptr_off == calc_relative_offset(bld, offset)
             p == IF value.op = "alloc_struct"
                  THEN new_struct(ptr_off, value.data_size, value.ptrs_size)
                  ELSE new_list(ptr_off, LIST_SIZE_8, Len(value.s))
             alone == \A u \in Producers \ {t} : call[u].pc = "idle"
         IN  call' = [u \in Producers |->
                        IF u = t
                        THEN [pc |-> "computed", calls |-> call[t].calls, op |-> value.op,
                              offset |-> offset, s |-> value.s, p |-> p,
                              chunk |-> 0, alone |-> alone]
                        ELSE IF call[u].pc = "idle" THEN call[u]
                        ELSE [call[u] EXCEPT !.alone = FALSE]]
    /\ UNCHANGED <<bld, prev, slots, st, cx, ccx, rd, seg, shadow, segcall>>

\* _alloc: the chunk appended
StepAppend(t) ==
    /\ call[t].pc = "computed"
    /\ bld' = alloc_append(bld, call[t].s)
    /\ call' = [call EXCEPT ![t].pc = "appended", ![t].chunk = Len(bld.extra) + 1]
    /\ UNCHANGED <<prev, slots, st, cx, ccx, rd, seg, shadow, segcall>>

\* _alloc: _force_alignment
StepPad(t) ==
    /\ call[t].pc = "appended"
    /\ bld' = force_alignment(bld)
    /\ call' = [call EXCEPT ![t].pc = "padded"]
    /\ UNCHANGED <<prev, slots, st, cx, ccx, rd, seg, shadow, segcall>>

\* _record_allocation: the pointer written, and the call returns
StepWrite(t) ==
    /\ call[t].pc = "padded"
    /\ bld' = record_allocation(bld, call[t].offset, call[t].p)
    /\ slots' = [slots EXCEPT ![call[t].offset] =
                    [written |-> TRUE, chunk |-> call[t].chunk, alone |-> call[t].alone]]
    /\ call' = [call EXCEPT ![t] = [pc |-> "idle", calls |-> call[t].calls + 1]]
    /\ UNCHANGED <<prev, st, cx, ccx, rd, seg, shadow, segcall>>

NextThreads ==
    \E t \in Producers : StepCompute(t) \/ StepAppend(t) \/ StepPad(t) \/ StepWrite(t)

SpecThreads == InitThreads /\ [][NextThreads]_vars

\* the pointer found in the slot at off refers to the start of chunk k
RefersToChunk(b, off, k) ==
    off + 8 + 8 * ptr_offset(ReadWord(build(b), off)) = ChunkStart(b, k)

\* C12: a pointer written by a call that ran alone, no step of another producer's
\* call in between, refers to the start of the chunk that call appended; the
\* state in which a pointer does not is reached only by calls that interleave.
C12_AloneCallsReachTheirChunk ==
    \A off \in DOMAIN slots :
        (slots[off].written /\ slots[off].alone) =>
            RefersToChunk(bld, off, slots[off].chunk)

\* two calls interleaved step by step, after which a written pointer does not
\* refer to the start of the chunk its call appended
C12_Witness ==
    \E off \in DOMAIN slots :
        /\ slots[off].written /\ ~slots[off].alone
        /\ ~RefersToChunk(bld, off, slots[off].chunk)

----------------------------------------------------------------------------
(* The order of alloc_struct *)

\* an alloc_struct call that was given a struct and returned its pointer
StructAllocated ==
    /\ call.op = "alloc_struct" /\ ~call.err
    /\ call.arg \notin {None, WrongType}

\* C13, as amended: alloc_struct computes the relative offset of the pointer from
\* the total length it finds, before the chunk is appended, then appends the
\* compacted bytes of the value as one chunk, then writes the pointer into the
\* parent at offset.
C13_OffsetFromLengthBeforeAppend ==
    StructAllocated =>
        /\ ptr_offset(call.ret) = (prev.total_length - (call.offset + 8)) \div 8
        /\ ptr_kind(call.ret) = STRUCT
        /\ Len(bld.extra) >= call.first_chunk
        /\ bld.extra[call.first_chunk] = compact(call.arg).buf
        /\ call.first_chunk = Len(prev.extra) + 1
        /\ bld.cls = "Builder" => ReadWord(bld.buf, call.offset) = call.ret

\* C13, as stated: the relative offset of the pointer is computed from the total
\* length after the chunk is appended.
C13_OffsetFromLengthAfterAppend ==
    StructAllocated =>
        ptr_offset(call.ret)
            = (prev.total_length + Len(bld.extra[call.first_chunk]) - (call.offset + 8)) \div 8

\* a struct allocated into the second slot of a Builder that holds a chunk already
C13_Witness ==
    /\ StructAllocated /\ bld.cls = "Builder"
    /\ call.offset = 16 /\ Len(prev.extra) > 0
    /\ Len(bld.extra[call.first_chunk]) > 8

----------------------------------------------------------------------------
(* List: the end of the body.  Here st holds a list view: the fields that  *)
(* List._init_from_buffer sets, with the buffer; slot_target and           *)
(* extra_start record how the buffer was laid out and are not fields of    *)
(* the program.                                                            *)

MaxListItems == 3

\* the sizes of the pointer section of the items of the lists read
ListPtrSizes == {0, 1, 2}

MaxListExtra == 3

\* List._get_offset_for_item
get_offset_for_item(l, i) == l.item_offset + i * l.item_length

\* List._get_body_end_scalar
get_body_end_scalar(l) == l.offset + l.item_length * l.item_count

EndAt(n) == [kind |-> "end", n |-> n]

\* Struct._get_extra_end_maybe: None for a struct that holds no non-null pointer,
\* else the maximum end reached from it
get_extra_end_maybe(v) ==
    IF v.ptrs_size = 0 \/ NonNullSlots(v) = {} THEN None ELSE EndAt(get_end(v))

RECURSIVE scan_items(_, _)
\* the loop of List._get_body_end_composite, from item i down to item 0
scan_items(l, i) ==
    IF i < 0 THEN get_body_end_scalar(l) + 8
    ELSE LET mystruct == struct_from_buffer(l.buf, l.offset + get_offset_for_item(l, i),
                                            struct_data_size(l.tag), struct_ptrs_size(l.tag))
         IN  IF ~struct_fits(mystruct) THEN Err
             ELSE LET e == get_extra_end_maybe(mystruct)
                  IN  IF e # None THEN e.n ELSE scan_items(l, i - 1)

\* _get_body_end_composite with a fault: only the last item is looked at
get_body_end_composite_last_only(l) ==
    IF struct_ptrs_size(l.tag) = 0 \/ l.item_count = 0
    THEN get_body_end_scalar(l) + 8
    ELSE LET mystruct == struct_from_buffer(l.buf,
                             l.offset + get_offset_for_item(l, l.item_count - 1),
                             struct_data_size(l.tag), struct_ptrs_size(l.tag))
             e == get_extra_end_maybe(mystruct)
         IN  IF e # None THEN e.n ELSE get_body_end_scalar(l) + 8

\* List._get_body_end_composite
get_body_end_composite(l) ==
    IF struct_ptrs_size(l.tag) = 0
    THEN get_body_end_scalar(l) + 8
    ELSE scan_items(l, l.item_count - 1)

\* List._get_body_end_ptr: the end of what the last pointer of the list refers to
get_body_end_ptr(l) ==
    LET ptr_off == l.offset + get_offset_for_item(l, l.item_count - 1)
        p == ReadWord(l.buf, ptr_off)
    IN  IF ptr_off < 0 \/ p = <<>> \/ p = NullPtr THEN Err
        ELSE end_of(l.buf, p, ptr_off, MaxDepth)

\* List._get_body_end
get_body_end_list(l) ==
    IF l.size_tag = LIST_SIZE_COMPOSITE THEN get_body_end_composite(l)
    ELSE IF l.size_tag = LIST_SIZE_PTR THEN get_body_end_ptr(l)
    ELSE get_body_end_scalar(l)

\* where the words after the body are referred to from: for each of them, the
\* pointer slot of the body that refers to it, 0 when none does
Referrers(nslots) ==
    {f \in [1..MaxListExtra -> 0..nslots] :
        \A w1, w2 \in 1..MaxListExtra : (w1 # w2 /\ f[w1] # 0) => f[w1] # f[w2]}

\* for each pointer slot of the body, the word after the body it refers to, 0 for null
SlotTargets(nslots, f) ==
    [k \in 1..nslots |->
        IF \E w \in 1..MaxListExtra : f[w] = k
        THEN CHOOSE w \in 1..MaxListExtra : f[w] = k ELSE 0]

\* the pointer word at byte position pos to the struct of one data word that is
\* word w after the body
SlotWord(pos, extra_start, w) ==
    IF w = 0 THEN NullPtr
    ELSE new_struct((extra_start + (w - 1) * 8 - (pos + 8)) \div 8, 1, 0)

ListExtra == Concat([w \in 1..MaxListExtra |-> LeafWord("S")])

\* a list of n structs of data_size data words and ptrs_size pointers, after g
\* words of garbage
CompositeListView(g, n, data_size, ptrs_size, f) ==
    LET offset == g * 8
        item_length == (data_size + ptrs_size) * 8
        extra_start == offset + 8 + n * item_length
        tgt == SlotTargets(n * ptrs_size, f)
        Item(i) == Concat([d \in 1..data_size |-> DataWord])
                   \o Concat([j \in 1..ptrs_size |->
                         SlotWord(offset + 8 + i * item_length + (data_size + j - 1) * 8,
                                  extra_start, tgt[i * ptrs_size + j])])
        buf == Concat([k \in 1..g |-> GarbageWord])
               \o new_struct(n, data_size, ptrs_size)
               \o Concat([k \in 1..n |-> Item(k - 1)]) \o ListExtra
    IN  list_from_buffer(buf, offset, LIST_SIZE_COMPOSITE, n * (data_size + ptrs_size))
            @@ [buf |-> buf, slot_target |-> tgt, extra_start |-> extra_start]

\* a list of n pointers, after g words of garbage
PtrListView(g, n, f) ==
    LET offset == g * 8
        extra_start == offset + n * 8
        tgt == SlotTargets(n, f)
        buf == Concat([k \in 1..g |-> GarbageWord])
               \o Concat([k \in 1..n |-> SlotWord(offset + (k - 1) * 8, extra_start, tgt[k])])
               \o ListExtra
    IN  list_from_buffer(buf, offset, LIST_SIZE_PTR, n)
            @@ [buf |-> buf, slot_target |-> tgt, extra_start |-> extra_start]

\* a list of n bytes or of n words, after g words of garbage
ScalarListView(g, n, size_tag) ==
    LET buf == Concat([k \in 1..(g + n) |-> GarbageWord])
    IN  list_from_buffer(buf, g * 8, size_tag, n)
            @@ [buf |-> buf, slot_target |-> <<>>, extra_start |-> 0]

ListViews ==
    {CompositeListView(g, n, ds, 0, f) :
        g \in 0..1, n \in 0..MaxListItems, ds \in 0..1, f \in Referrers(0)}
    \cup UNION {{CompositeListView(g, n, 1, ps, f) : g \in 0..1, f \in Referrers(n * ps)} :
                   n \in 0..MaxListItems, ps \in ListPtrSizes \ {0}}
    \cup UNION {{PtrListView(g, n, f) : g \in 0..1, f \in Referrers(n)} : n \in 1..MaxListItems}
    \cup {ScalarListView(g, n, tag) :
             g \in 0..1, n \in 0..MaxListItems, tag \in {LIST_SIZE_8, LIST_SIZE_64}}

InitList ==
    /\ st \in ListViews
    /\ cx = Idle /\ ccx = Idle /\ rd = Idle
    /\ BuilderIdle /\ SegIdle

GetBodyEnd ==
    /\ rd' = [op |-> "get_body_end", val |-> get_body_end_list(st)]
    /\ UNCHANGED <<bld, prev, call, slots, st, cx, ccx, seg, shadow, segcall>>

GetBodyEndScalar ==
    /\ rd' = [op |-> "get_body_end_scalar", val |-> get_body_end_scalar(st)]
    /\ UNCHANGED <<bld, prev, call, slots, st, cx, ccx, seg, shadow, segcall>>

NextList == GetBodyEnd \/ GetBodyEndScalar

SpecList == InitList /\ [][NextList]_vars

\* the pointer slots of item i of a composite list, as indices of slot_target
ItemSlots(l, i) ==
    {i * struct_ptrs_size(l.tag) + j : j \in 1..struct_ptrs_size(l.tag)}

\* item i of a composite list holds a non-null pointer
ItemHasPointer(l, i) == \E k \in ItemSlots(l, i) : l.slot_target[k] # 0

----------------------------------------------------------------------------
(* Builder.set and Builder.setbool.  slots records, for each bit of the    *)
(* body, the value given by the last setbool on it, "unset" when no        *)
(* setbool was made on it since the body was created or its byte was set.  *)

MaxBoolBytes == 1

MaxBoolCalls == 3

\* pack_into(ifmt, buf, offset, value): value written as ifmt.width little-endian bytes
pack_into(ifmt, buf, offset, value) ==
    SubSeq(buf, 1, offset) \o PackLE(value, ifmt.width)
        \o SubSeq(buf, offset + ifmt.width + 1, Len(buf))

\* unpack_primitive(ifmt, buf, offset), for an unsigned ifmt
unpack_primitive(ifmt, buf, offset) == UnpackLE(SubSeq(buf, offset + 1, offset + ifmt.width))

\* Builder.set
set(b, ifmt, offset, value) == [b EXCEPT !.buf = pack_into(ifmt, b.buf, offset, value)]

\* current | (value << bitoffset), for a byte current
BitOr(current, value, bitoffset) ==
    IF value /\ (current \div (2 ^ bitoffset)) % 2 = 0
    THEN current + 2 ^ bitoffset
    ELSE current

\* Builder.setbool
setbool(b, byteoffset, bitoffset, value) ==
    LET ifmt == uint8_ifmt
        current == unpack_primitive(ifmt, b.buf, byteoffset)
    IN  set(b, ifmt, byteoffset, BitOr(current, value, bitoffset))

BoolBytes == 0..(MaxBoolBytes - 1)

BitOffsets == {0, 3, 7}

ByteValues == {0, 8, 255}

InitSetBool ==
    /\ bld = builder_init(1, 0)
    /\ prev = bld
    /\ call = [op |-> "init", n |-> 0]
    /\ slots = [pos \in BoolBytes \X (0..7) |-> "unset"]
    /\ StructIdle /\ SegIdle

SetBool ==
    \E byteoffset \in BoolBytes : \E bitoffset \in BitOffsets : \E value \in BOOLEAN :
        /\ call.n < MaxBoolCalls
        /\ bld' = setbool(bld, byteoffset, bitoffset, value)
        /\ prev' = bld
        /\ call' = [op |-> "setbool", n |-> call.n + 1, byteoffset |-> byteoffset,
                    bitoffset |-> bitoffset, value |-> value]
        /\ slots' = [slots EXCEPT ![<<byteoffset, bitoffset>>] =
                        IF value THEN "true" ELSE "false"]
        /\ UNCHANGED <<st, cx, ccx, rd, seg, shadow, segcall>>

Set ==
    \E offset \in BoolBytes : \E value \in ByteValues :
        /\ call.n < MaxBoolCalls
        /\ bld' = set(bld, uint8_ifmt, offset, value)
        /\ prev' = bld
        /\ call' = [op |-> "set", n |-> call.n + 1, offset |-> offset, value |-> value]
        /\ slots' = [pos \in DOMAIN slots |-> IF pos[1] = offset THEN "unset" ELSE slots[pos]]
        /\ UNCHANGED <<st, cx, ccx, rd, seg, shadow, segcall>>

NextSetBool == SetBool \/ Set

SpecSetBool == InitSetBool /\ [][NextSetBool]_vars

\* the bit at (byteoffset, bitoffset) of a buffer
BitAt(buf, byteoffset, bitoffset) == (buf[byteoffset + 1] \div (2 ^ bitoffset)) % 2 = 1

\* C15: the bit at (byteoffset, bitoffset) of the body is the value given by the
\* last setbool on that bit, False after an earlier True included, and a setbool
\* leaves every other bit of the body as it was.
C15_SetBoolLastValueWins ==
    /\ \A pos \in DOMAIN slots :
          slots[pos] # "unset" => (BitAt(bld.buf, pos[1], pos[2]) <=> slots[pos] = "true")
    /\ call.op = "setbool" =>
          \A byte \in 0..(Len(bld.buf) - 1) : \A bit \in 0..7 :
              <<byte, bit>> # <<call.byteoffset, call.bitoffset>> =>
                  (BitAt(bld.buf, byte, bit) <=> BitAt(prev.buf, byte, bit))

=============================================================================
